---- MODULE Spec2Model ----
(***************************************************************************)
(* Verification model of the resilient external-write paths of the bots:   *)
(*   - ApiAdapter.save_note / save_food_log (src/adapters/api_adapter.py): *)
(*     one idempotent save with a bounded retry loop and exponential       *)
(*     backoff, against a remote that upserts by wire identifier;          *)
(*   - the sleep bot's offline cache, health monitor and drains            *)
(*     (src/sleep_bot.py).                                                 *)
(* Durations are integers (units of the configured retry_delay grid).      *)
(***************************************************************************)
EXTENDS Integers, Sequences, FiniteSets, TLC

VARIABLES
    \* ---- ApiAdapter configuration (api_adapter.py __init__) ----
    max_retries,            \* self.max_retries
    retry_delay,            \* self.retry_delay
    \* ---- one record per running save call ----
    pc,                     \* position of each save call
    call,                   \* arguments of the call: op, message_id, chat_id, text
    formatted_message_id,   \* local formatted_message_id
    attempt,                \* loop variable `attempt` (0-based)
    last_error,             \* local last_error
    posts,                  \* number of client.post calls issued by the call
    waits,                  \* the asyncio.sleep durations of the call, in order
    hist,                   \* what each attempt of the call met, in order
    outcome,                \* how the call ended: returned dict / None / raised
    prior,                  \* whether a save of the same message had returned a result
                            \* when this call began
    returned,               \* the messages some finished save returned a result for
    \* ---- the remote store behind POST /notes and POST /food-logs ----
    remote,                 \* sequence of stored records
    submitted,              \* the (endpoint, message_id, chat_id) ever handed to a call
    calls,                  \* number of save calls begun
    latest,                 \* per endpoint and wire identifier: the save submitted
                            \* last, its text, whether another save of the
                            \* identifier was in flight then, and how it ended
    \* ---- sleep bot: BotMemoryCache (sleep_bot.py) ----
    pending_entries,        \* bot_memory.pending_entries (entries named by their id)
    is_backend_available,   \* bot_memory.is_backend_available
    \* ---- sleep bot: the backend and the two tasks of the event loop ----
    backend,                \* "up", "down", or "stable" (up from now on)
    accepted,               \* how often the backend accepted each entry: 0, 1, 2 (= more)
    next_entry,             \* the next fresh entry (uuid4) a check-in creates
    hd,                     \* the update handler being processed (updates are serial)
    hc,                     \* the check_backend_health job
    flush_prompt,           \* a flush confirmation keyboard has been sent
    audit,                  \* bookkeeping of what the drains submitted, per entry,
                            \* and of the entries a flush discarded (kept when on)
    drain_prev,             \* how the last finished drain went, while nothing was
                            \* enqueued and no drain began since: "ok", "failed", "none"
    last_known_entries,     \* bot_memory.last_known_entries
    \* ---- the other handlers and functions of the bots ----
    view,                   \* a call of get_combined_history: its limit and result
    handler,                \* action_save_note / action_save_food_log around a save
    dispatch,               \* a run of the handler built by reply_builder
    transcript,             \* a call of transcribe_audio_file: the text and the messages
    notion,                 \* a call of _chunk_text_for_notion: the text and the chunks
    tracker                 \* the NetworkErrorTracker of an error handler, the clock
                            \* and what the handler logged last

save_vars == <<max_retries, retry_delay, pc, call, formatted_message_id, attempt,
               last_error, posts, waits, hist, outcome, prior, returned, remote,
               submitted, calls, latest>>

sleep_vars == <<pending_entries, is_backend_available, backend, accepted, next_entry,
                hd, hc, flush_prompt, drain_prev, audit>>

bot_vars == <<last_known_entries, view, handler, dispatch, transcript, notion,
             tracker>>

vars == <<save_vars, sleep_vars, bot_vars>>

----------------------------------------------------------------------------
(* Bounds of the model *)

MaxRetries == 3
MaxDelay == 2
MaxUpsertRetries == 2
MaxCalls == 2
MaxEntries == 2
MaxHistory == 2         \* entries in each list handed to get_combined_history
MaxLimit == 3           \* its limit argument
MaxConditions == 4      \* entries of the dict handed to reply_builder
MaxText == 8            \* pieces of a transcribed text
RunLength == 400        \* characters a "w" piece of a text stands for
MaxChunkText == 5       \* characters of a text handed to _chunk_text_for_notion
MaxChunkSize == 3       \* largest max_chunk_size handed to _chunk_text_for_notion
MaxClock == 8           \* minutes the clock of the error handler runs
MaxErrors == 6          \* network errors the error handler is called for

\* The save calls that may run (concurrently) in the upsert specification.
Savers == {"s1", "s2"}
\* The save call of the single-call specification.
OneSaver == {"s1"}

\* chat_id is None or an int; an int is modelled by its decimal rendering.
NoChat == "None"
MessageIds == {"7", "1_7"}
ChatIds == {NoChat, "1"}
Texts == {"a", "b"}
Ops == {"save_note", "save_food_log"}

NoCall == [op |-> "none", message_id |-> "", chat_id |-> NoChat, text |-> ""]
NoOutcome ==
    [kind |-> "running", status |-> "", id |-> 0, message_id |-> "", msg |-> "", code |-> 0]

----------------------------------------------------------------------------
(* What one POST attempt can meet.  `applied` says whether the remote       *)
(* processed the request before the client saw the outcome.                 *)

\* response.raise_for_status(): 2xx is success, everything else raises.
is_success(status) == status >= 200 /\ status < 300

StatusCodes == {200, 302, 404, 500, 503, 600}
Bodies == {"full", "no_status", "no_id"}

Responses ==
    {[type |-> "response", status |-> 200, body |-> b, applied |-> TRUE] : b \in Bodies}
    \cup {[type |-> "response", status |-> st, body |-> "error", applied |-> FALSE] :
            st \in StatusCodes \ {200}}

Failures ==
    {[type |-> t, status |-> 0, body |-> "", applied |-> a] :
        t \in {"timeout", "request_error"}, a \in BOOLEAN}
    \cup {[type |-> "exception", status |-> 0, body |-> "", applied |-> FALSE]}

AllOutcomes == Responses \cup Failures

----------------------------------------------------------------------------
(* ApiAdapter helpers *)

\* Variant: the chat id is left out.
format_message_id_bare(message_id, chat_id) == message_id

\* _format_message_id: "{chat_id}_{message_id}" when a chat id is given.
format_message_id(message_id, chat_id) ==
    IF chat_id # NoChat THEN chat_id \o "_" \o message_id ELSE message_id

\* Variant: the identifier is rebuilt for every attempt and carries its number.
payload_per_attempt(s) ==
    [message_id |-> formatted_message_id[s] \o "#" \o ToString(attempt[s]),
     text |-> call[s].text]

\* The JSON payload of the POST, built once before the retry loop.
payload(s) == [message_id |-> formatted_message_id[s], text |-> call[s].text]

\* Variant: the exponent counts attempts from 1.
wait_time_from_one(delay, a) == delay * (2 ^ (a + 1))

\* wait_time = self.retry_delay * (2 ** attempt)
wait_time(delay, a) == delay * (2 ^ a)

\* Variant: the timeout handler sleeps the bare delay.
handler_wait_flat_timeout(kind, delay, a) ==
    IF kind = "timeout" THEN delay ELSE wait_time(delay, a)

\* The wait computed in the handler of each retryable kind (a 5xx status at
\* line 140, a timeout at 153, a request error at 167): the same expression.
handler_wait(kind, delay, a) ==
    IF kind = "response" THEN wait_time(delay, a)
    ELSE IF kind = "timeout" THEN wait_time(delay, a)
    ELSE wait_time(delay, a)

\* Variant: the handlers give up one attempt early.
may_retry_short(a) == a < max_retries - 2

\* `attempt < self.max_retries - 1`: another iteration of the loop remains.
may_retry(a) == a < max_retries - 1

\* Variant: the loop runs one iteration more.
loop_continues_le(a) == a <= max_retries

\* `for attempt in range(self.max_retries)`: the loop has an iteration for a.
loop_continues(a) == a < max_retries

\* Variant: only the status field is looked for.
body_valid_status_only(body) == body # "no_status"

\* `"status" not in result or "note_id" not in result` does not hold.
body_valid(body) == body = "full"

\* Variants: the boundary of the client-error test moved.
is_client_error_le(status) == status <= 500
is_client_error_below_404(status) == status < 404
is_client_error_lt_400(status) == status < 400

\* `e.response.status_code < 500`: the loop's test for a client error.
is_client_error(status) == status < 500

\* The exception an attempt raises inside the try, by class: raise_for_status
\* raises HTTPStatusError carrying the status, the validation raises
\* ValueError, client.post raises a timeout, another RequestError, or
\* something else.  An attempt answered 2xx with a well-formed body raises
\* nothing.
error_of(h) ==
    IF h.type = "response" /\ is_success(h.status)
    THEN IF body_valid(h.body) THEN [class |-> "none", status |-> 0]
         ELSE [class |-> "ValueError", status |-> 0]
    ELSE IF h.type = "response" THEN [class |-> "HTTPStatusError", status |-> h.status]
    ELSE IF h.type = "timeout" THEN [class |-> "ReadTimeout", status |-> 0]
    ELSE IF h.type = "request_error" THEN [class |-> "RequestError", status |-> 0]
    ELSE [class |-> "Exception", status |-> 0]

\* Variant: the upper bound of the server-error range is included.
is_retryable_error_le_600(error) ==
    IF error.class \in {"ReadTimeout", "ConnectTimeout", "WriteTimeout"} THEN TRUE
    ELSE IF error.class = "RequestError" THEN TRUE
    ELSE IF error.class = "HTTPStatusError"
    THEN error.status >= 500 /\ error.status <= 600
    ELSE FALSE

\* _is_retryable_error (lines 60-77).
is_retryable_error(error) ==
    IF error.class \in {"ReadTimeout", "ConnectTimeout", "WriteTimeout"} THEN TRUE
    ELSE IF error.class = "RequestError" THEN TRUE
    ELSE IF error.class = "HTTPStatusError"
    THEN error.status >= 500 /\ error.status < 600
    ELSE FALSE

\* Variant: the status is not taken from the response.
result_dict_created(status, id, mid) ==
    [kind |-> "result", status |-> "created", id |-> id, message_id |-> mid,
     msg |-> "", code |-> 0]

\* The dict returned on success (lines 126-130 / 239-243).
result_dict(status, id, mid) ==
    [kind |-> "result", status |-> status, id |-> id, message_id |-> mid,
     msg |-> "", code |-> 0]

\* An exception leaving the call.
raised(msg, code) ==
    [kind |-> "error", status |-> "", id |-> 0, message_id |-> "", msg |-> msg,
     code |-> code]

\* Falling off the end of the function body: Python returns None.
returned_none ==
    [kind |-> "none", status |-> "", id |-> 0, message_id |-> "", msg |-> "", code |-> 0]

----------------------------------------------------------------------------
(* The remote: upsert by (endpoint, wire identifier) *)

remote_index(store, op, mid) ==
    {i \in 1..Len(store) : store[i].op = op /\ store[i].message_id = mid}

\* Variant: the remote answers 'created' for a record it already holds.
remote_status_inverted(store, op, mid) ==
    IF remote_index(store, op, mid) # {} THEN "created" ELSE "updated"

remote_status(store, op, mid) ==
    IF remote_index(store, op, mid) # {} THEN "updated" ELSE "created"

remote_id(store, op, mid) ==
    IF remote_index(store, op, mid) # {}
    THEN store[CHOOSE i \in remote_index(store, op, mid) : TRUE].id
    ELSE Len(store) + 1

\* Variant: a record already stored keeps its text.
remote_insert_only(store, op, p) ==
    IF remote_index(store, op, p.message_id) # {}
    THEN store
    ELSE Append(store, [op |-> op, message_id |-> p.message_id, text |-> p.text,
                        id |-> Len(store) + 1])

remote_upsert(store, op, p) ==
    IF remote_index(store, op, p.message_id) # {}
    THEN [i \in 1..Len(store) |->
            IF i \in remote_index(store, op, p.message_id)
            THEN [store[i] EXCEPT !.text = p.text]
            ELSE store[i]]
    ELSE Append(store, [op |-> op, message_id |-> p.message_id, text |-> p.text,
                        id |-> Len(store) + 1])

----------------------------------------------------------------------------
(* One save call: save_note / save_food_log *)

\* The statements after the `for` loop (lines 184-188 / 297-301).
after_loop(err) ==
    IF err # "none" THEN raised("failed_after", 0) ELSE returned_none

\* The identifiers a save can be made under, per endpoint.
SaveKeys == {<<op, format_message_id(m, c)>> : op \in Ops, m \in MessageIds, c \in ChatIds}

NoEdit == [text |-> "", saver |-> "", overlap |-> FALSE, status |-> "none"]

\* Bookkeeping of the save submitted last under an identifier: call s begins.
latest_submitted(l, s, op, mid, t) ==
    [l EXCEPT ![<<op, mid>>] =
        [text |-> t, saver |-> s, status |-> "running",
         overlap |-> \E r \in DOMAIN pc \ {s} :
                        /\ pc[r] \in {"attempting", "waiting"}
                        /\ call[r].op = op
                        /\ formatted_message_id[r] = mid]]

\* The same when call s has made a step: if it is over and was the one
\* submitted last, how it ended ("result", "error" or "none").
latest_finished(l, s, p, o) ==
    LET k == <<call[s].op, formatted_message_id[s]>> IN
    IF p = "done" /\ l[k].saver = s /\ l[k].status = "running"
    THEN [l EXCEPT ![k].status = IF o.kind = "result" THEN "result" ELSE "failed"]
    ELSE l

\* Entry of the call up to the first suspension point.
Submit(s, op, m, c, t) ==
    /\ UNCHANGED <<sleep_vars, bot_vars>>
    /\ pc[s] = "idle"
    /\ call' = [call EXCEPT ![s] = [op |-> op, message_id |-> m, chat_id |-> c, text |-> t]]
    /\ formatted_message_id' = [formatted_message_id EXCEPT ![s] = format_message_id(m, c)]
    /\ submitted' = submitted \cup {<<op, m, c>>}
    /\ calls' = calls + 1
    /\ attempt' = [attempt EXCEPT ![s] = 0]
    /\ last_error' = [last_error EXCEPT ![s] = "none"]
    /\ prior' = [prior EXCEPT ![s] = <<op, m, c>> \in returned]
    /\ IF loop_continues(0)
       THEN /\ pc' = [pc EXCEPT ![s] = "attempting"]
            /\ UNCHANGED outcome
       ELSE /\ pc' = [pc EXCEPT ![s] = "done"]
            /\ outcome' = [outcome EXCEPT ![s] = after_loop("none")]
    /\ latest' = LET l == latest_submitted(latest, s, op, format_message_id(m, c), t)
                 IN  IF loop_continues(0) THEN l
                     ELSE [l EXCEPT ![<<op, format_message_id(m, c)>>].status = "failed"]
    /\ UNCHANGED <<max_retries, retry_delay, posts, waits, hist, remote, returned>>

\* How one iteration of the loop ends, given what the POST met:
\* "return", "raise" or "sleep".
attempt_step(o, a) ==
    IF o.type = "response" /\ is_success(o.status)
    THEN IF body_valid(o.body) THEN "return" ELSE "raise"
    ELSE IF o.type = "response"
    THEN IF is_client_error(o.status) THEN "raise"
         ELSE IF may_retry(a) THEN "sleep" ELSE "raise"
    ELSE IF o.type \in {"timeout", "request_error"}
    THEN IF may_retry(a) THEN "sleep" ELSE "raise"
    ELSE "raise"

\* Variant: the timeout handler raises the message of the request-error one.
attempt_error_merged(o) ==
    IF o.type = "response" /\ is_success(o.status) THEN raised("unexpected", 0)
    ELSE IF o.type = "response" THEN raised("failed_status", o.status)
    ELSE IF o.type = "timeout" THEN raised("request_error", 0)
    ELSE IF o.type = "request_error" THEN raised("request_error", 0)
    ELSE raised("unexpected", 0)

\* The exception that leaves the call when an iteration raises.
attempt_error(o) ==
    IF o.type = "response" /\ is_success(o.status) THEN raised("unexpected", 0)
    ELSE IF o.type = "response" THEN raised("failed_status", o.status)
    ELSE IF o.type = "timeout" THEN raised("timeout", 0)
    ELSE IF o.type = "request_error" THEN raised("request_error", 0)
    ELSE raised("unexpected", 0)

\* last_error after the iteration (assigned in the three retrying handlers).
attempt_last_error(o, old) ==
    IF o.type = "response" /\ ~is_success(o.status) THEN "status"
    ELSE IF o.type \in {"timeout", "request_error"} THEN o.type
    ELSE old

\* One iteration of the retry loop: the POST and the handling of its outcome.
Attempt(s, o) ==
    /\ UNCHANGED <<sleep_vars, bot_vars>>
    /\ pc[s] = "attempting"
    /\ posts' = [posts EXCEPT ![s] = @ + 1]
    /\ hist' = [hist EXCEPT ![s] = Append(@, [type |-> o.type, status |-> o.status,
                                               body |-> o.body])]
    /\ remote' = IF o.applied THEN remote_upsert(remote, call[s].op, payload(s)) ELSE remote
    /\ last_error' = [last_error EXCEPT ![s] = attempt_last_error(o, @)]
    /\ LET step == attempt_step(o, attempt[s]) IN
       CASE step = "return" ->
              /\ outcome' = [outcome EXCEPT ![s] =
                    result_dict(remote_status(remote, call[s].op, payload(s).message_id),
                                remote_id(remote, call[s].op, payload(s).message_id),
                                formatted_message_id[s])]
              /\ pc' = [pc EXCEPT ![s] = "done"]
              /\ UNCHANGED waits
         [] step = "raise" ->
              /\ outcome' = [outcome EXCEPT ![s] = attempt_error(o)]
              /\ pc' = [pc EXCEPT ![s] = "done"]
              /\ UNCHANGED waits
         [] step = "sleep" ->
              /\ waits' = [waits EXCEPT ![s] = Append(@, handler_wait(o.type, retry_delay, attempt[s]))]
              /\ pc' = [pc EXCEPT ![s] = "waiting"]
              /\ UNCHANGED outcome
    /\ UNCHANGED <<max_retries, retry_delay, call, formatted_message_id, attempt,
                   prior, returned, submitted, calls>>
    /\ latest' = latest_finished(latest, s, pc'[s], outcome'[s])

\* asyncio.sleep returns; `continue` starts the next iteration.
Wake(s) ==
    /\ UNCHANGED <<sleep_vars, bot_vars>>
    /\ pc[s] = "waiting"
    /\ attempt' = [attempt EXCEPT ![s] = @ + 1]
    /\ IF loop_continues(attempt[s] + 1)
       THEN /\ pc' = [pc EXCEPT ![s] = "attempting"]
            /\ UNCHANGED outcome
       ELSE /\ pc' = [pc EXCEPT ![s] = "done"]
            /\ outcome' = [outcome EXCEPT ![s] = after_loop(last_error[s])]
    /\ UNCHANGED <<max_retries, retry_delay, call, formatted_message_id, last_error,
                   posts, waits, hist, prior, returned, remote, submitted,
                   calls>>
    /\ latest' = latest_finished(latest, s, pc'[s], outcome'[s])

\* The caller receives the dict, None or the exception; the call's frame is gone.
Return(s) ==
    /\ UNCHANGED <<sleep_vars, bot_vars>>
    /\ pc[s] = "done"
    /\ pc' = [pc EXCEPT ![s] = "idle"]
    /\ returned' = IF outcome[s].kind = "result"
                   THEN returned \cup {<<call[s].op, call[s].message_id, call[s].chat_id>>}
                   ELSE returned
    /\ call' = [call EXCEPT ![s] = NoCall]
    /\ formatted_message_id' = [formatted_message_id EXCEPT ![s] = ""]
    /\ attempt' = [attempt EXCEPT ![s] = 0]
    /\ last_error' = [last_error EXCEPT ![s] = "none"]
    /\ posts' = [posts EXCEPT ![s] = 0]
    /\ waits' = [waits EXCEPT ![s] = <<>>]
    /\ hist' = [hist EXCEPT ![s] = <<>>]
    /\ outcome' = [outcome EXCEPT ![s] = NoOutcome]
    /\ prior' = [prior EXCEPT ![s] = FALSE]
    /\ UNCHANGED <<max_retries, retry_delay, remote, submitted, calls, latest>>

----------------------------------------------------------------------------
(* Sleep bot: offline cache, check-ins, manual sync, flush, health monitor *)

EntryIds == 1..MaxEntries

\* What a POST /submit can meet.  "200" and "lost" are accepted by the backend;
\* with "lost" the client sees an exception after the backend stored the entry.
SubmitOutcomes(b) ==
    IF b = "stable" THEN {"200"}
    ELSE IF b = "up" THEN {"200", "lost"}
    ELSE {"status", "raised"}

backend_accepts(o) == o \in {"200", "lost"}

\* The saturating count of acceptances of one entry.
accept(acc, e) == [acc EXCEPT ![e] = IF @ >= 2 THEN 2 ELSE @ + 1]

\* Variant: a probe that failed counts as an answer.
check_backend_optimistic(b) == TRUE

\* TelegramBot.check_backend: GET /history?limit=1 answered with 200.
check_backend(b) == b # "down"

\* What that GET met, and how many GETs one check makes (no loop around it).
probe_result(b) == IF b = "down" THEN "failed" ELSE "ok"
probe_gets == 1

\* ALLOWED_CHAT_IDS of the sleep bot, a list of chat ids.
allowed_chat_ids == <<1, 2>>

\* Variant: only the first chat of the list is told.
status_notifications_first_only(chats) == SubSeq(chats, 1, 1)

\* `for chat_id in allowed_chat_ids: send_message(...)` (lines 657-661): the
\* chats a status message is sent to, in order; a failed send is logged and
\* the loop goes on.
status_notifications(chats) == chats

\* Variant: a failed submission marks the backend unavailable.
flag_after_submit_marks_down(flag, o) == flag /\ o = "200"

\* button_callback after its POST: it reads is_backend_available and never
\* assigns it.
flag_after_submit(flag, o) == flag

InSeq(q, e) == \E i \in 1..Len(q) : q[i] = e

\* list.remove(x): the first occurrence goes (the caller checks membership,
\* where Python raises ValueError).
remove(q, e) ==
    LET i == CHOOSE j \in 1..Len(q) : q[j] = e /\ \A k \in 1..(j - 1) : q[k] # e
    IN  [k \in 1..(Len(q) - 1) |-> IF k < i THEN q[k] ELSE q[k + 1]]

\* Variants: an entry already pending is not queued again; the entry is not
\* queued.
add_pending_entry_once(q, e) == IF InSeq(q, e) THEN q ELSE Append(q, e)
add_pending_entry_dropped(q, e) == q

\* BotMemoryCache.add_pending_entry
add_pending_entry(q, e) == Append(q, e)

\* BotMemoryCache.clear_pending
clear_pending(q) == <<>>

\* Variants: the entry is taken off whatever the answer; every occurrence of
\* a synced entry is taken off.
drain_remove_any_status(q, e, o) == IF InSeq(q, e) THEN remove(q, e) ELSE q
drain_remove_all(q, e, o) ==
    IF o = "200" THEN SelectSeq(q, LAMBDA x : x # e) ELSE q

\* Variant: a synced entry is not taken off the list.
drain_remove_keeps(q, e, o) == q

\* `if response.status_code == 200: pending_entries.remove(entry)` inside the
\* try of both drains: the list after handling the outcome of one submission.
drain_remove(q, e, o) == IF o = "200" /\ InSeq(q, e) THEN remove(q, e) ELSE q

\* Variants: the test of the recovery sync inverted; the probe's answer left
\* out of it.
should_sync_when_down(is_available, q) == ~is_available /\ q # <<>>
should_sync_any_change(is_available, q) == q # <<>>

\* `if is_available and bot_memory.pending_entries` (line 664).
should_sync(is_available, q) == is_available /\ q # <<>>

HdIdle == [pc |-> "idle", entry |-> 0, snapshot |-> <<>>, idx |-> 0, synced |-> 0,
           failed |-> 0, after |-> "none", res |-> "none", persisted |-> FALSE,
           last200 |-> FALSE, queued |-> 0]

HcIdle == [pc |-> "idle", is_available |-> FALSE, snapshot |-> <<>>, idx |-> 0,
           drains |-> 0, scenario |-> FALSE, enq |-> FALSE,
           after |-> "none", res |-> "none", persisted |-> FALSE,
           last200 |-> FALSE, added |-> {},
           change |-> "none", notified |-> <<>>, probe |-> "none", gets |-> 0]

AuditOff == [on |-> FALSE, drained |-> [e \in EntryIds |-> 0], flushed |-> {},
             posted |-> FALSE]
AuditOn == [AuditOff EXCEPT !.on = TRUE]

\* A drain has submitted entry e and met o: one more acceptance of e by a
\* drain if the backend took it (counted up to 2), and a submission after a
\* flush if e was among the entries a flush discarded.
audit_drain(a, e, o) ==
    IF ~a.on THEN a
    ELSE [a EXCEPT !.drained[e] = IF ~backend_accepts(o) THEN @
                                  ELSE IF @ >= 2 THEN 2 ELSE @ + 1,
                   !.posted = @ \/ e \in a.flushed]

\* A flush discards the list q.
audit_flush(a, q) ==
    IF ~a.on THEN a
    ELSE [a EXCEPT !.flushed = @ \cup {q[i] : i \in DOMAIN q}]

\* The sleep bot before any update or job has run.
SleepIdle ==
    /\ audit = AuditOff
    /\ pending_entries = <<>>
    /\ is_backend_available = FALSE
    /\ backend = "down"
    /\ accepted = [e \in EntryIds |-> 0]
    /\ next_entry = 1
    /\ hd = HdIdle
    /\ hc = HcIdle
    /\ flush_prompt = FALSE
    /\ drain_prev = "none"

\* An enqueue ends any "two drains in a row" and spoils the running drains'.
enqueue_res(r) == "none"
\* The entries queued while the automatic drain runs.
enqueue_added(h, e) == IF h.pc = "drain" THEN h.added \cup {e} ELSE h.added
\* A failed submission marks the drain that made it.
failed_res(r, o) == IF o = "200" THEN r ELSE IF r = "none" THEN "none" ELSE "failed"

\* ---- button_callback: a rating ----

\* Lines 295-326: the entry is built; with the flag down it is queued at once.
RatingStart ==
    /\ UNCHANGED <<save_vars, bot_vars, audit>>
    /\ hd.pc = "idle"
    /\ next_entry <= MaxEntries
    /\ next_entry' = next_entry + 1
    /\ IF is_backend_available
       THEN /\ hd' = [hd EXCEPT !.pc = "rating_post", !.entry = next_entry,
                                !.last200 = FALSE, !.queued = 0]
            /\ UNCHANGED <<pending_entries, drain_prev, hc>>
       ELSE /\ pending_entries' = add_pending_entry(pending_entries, next_entry)
            /\ hd' = [hd EXCEPT !.pc = "rating_edit", !.entry = next_entry,
                                !.res = enqueue_res(@), !.last200 = FALSE,
                                !.queued = 1]
            /\ hc' = [hc EXCEPT !.res = enqueue_res(@), !.scenario = FALSE, !.enq = TRUE,
                                !.added = enqueue_added(hc, next_entry)]
            /\ drain_prev' = "none"
    /\ UNCHANGED <<is_backend_available, backend, accepted, flush_prompt>>

\* Lines 318-322 and 334-343: the POST returns; anything but 200 queues it.
RatingPost(o) ==
    /\ UNCHANGED <<save_vars, bot_vars, audit>>
    /\ hd.pc = "rating_post"
    /\ o \in SubmitOutcomes(backend)
    /\ accepted' = IF backend_accepts(o) THEN accept(accepted, hd.entry) ELSE accepted
    /\ IF o = "200"
       THEN /\ hd' = [hd EXCEPT !.pc = "rating_edit"]
            /\ UNCHANGED <<pending_entries, drain_prev, hc>>
       ELSE /\ pending_entries' = add_pending_entry(pending_entries, hd.entry)
            /\ hd' = [hd EXCEPT !.pc = "idle", !.res = enqueue_res(@),
                                !.queued = @ + 1]
            /\ hc' = [hc EXCEPT !.res = enqueue_res(@), !.scenario = FALSE,
                                !.added = enqueue_added(hc, hd.entry)]
            /\ drain_prev' = "none"
    /\ is_backend_available' = flag_after_submit(is_backend_available, o)
    /\ UNCHANGED <<backend, next_entry, flush_prompt>>

\* Lines 328-343: query.edit_message_text sits inside the try; when it raises,
\* the except clause queues the entry.
RatingEdit(ok) ==
    /\ UNCHANGED <<save_vars, bot_vars, audit>>
    /\ hd.pc = "rating_edit"
    /\ IF ok
       THEN /\ hd' = [hd EXCEPT !.pc = "idle"]
            /\ UNCHANGED <<pending_entries, drain_prev, hc>>
       ELSE /\ pending_entries' = add_pending_entry(pending_entries, hd.entry)
            /\ hd' = [hd EXCEPT !.pc = "idle", !.res = enqueue_res(@),
                                !.queued = @ + 1]
            /\ hc' = [hc EXCEPT !.res = enqueue_res(@), !.scenario = FALSE,
                                !.added = enqueue_added(hc, hd.entry)]
            /\ drain_prev' = "none"
    /\ UNCHANGED <<is_backend_available, backend, accepted, next_entry, flush_prompt>>

\* ---- flush_memory and the flush_confirm button ----

FlushMemory ==
    /\ UNCHANGED <<save_vars, bot_vars, audit>>
    /\ hd.pc = "idle"
    /\ pending_entries # <<>>
    /\ ~flush_prompt
    /\ flush_prompt' = TRUE
    /\ hc' = [hc EXCEPT !.scenario = FALSE]
    /\ UNCHANGED <<pending_entries, is_backend_available, backend, accepted, next_entry,
                   hd, drain_prev>>

FlushConfirm ==
    /\ UNCHANGED <<save_vars, bot_vars>>
    /\ audit' = audit_flush(audit, pending_entries)
    /\ hd.pc = "idle"
    /\ flush_prompt
    /\ pending_entries' = clear_pending(pending_entries)
    /\ hc' = [hc EXCEPT !.scenario = FALSE, !.added = {}]
    /\ UNCHANGED <<is_backend_available, backend, accepted, next_entry, hd, flush_prompt,
                   drain_prev>>

\* ---- history ----

RECURSIVE backend_history(_, _)
\* The body of a 200 answer to GET /history?limit=5: the entries the backend
\* holds among 1..e, newest first, five at most.
backend_history(acc, e) ==
    IF e = 0 THEN <<>>
    ELSE LET rest == backend_history(acc, e - 1)
             all == IF acc[e] >= 1 THEN <<e>> \o rest ELSE rest
         IN  SubSeq(all, 1, IF Len(all) < 5 THEN Len(all) ELSE 5)

\* Lines 436-447: with the flag up the handler asks the backend and, on a
\* 200, replaces last_known_entries; any other answer raises into the except
\* clause, which only replies.  The flag is read, never written.
History ==
    /\ UNCHANGED <<save_vars, sleep_vars, view, handler, dispatch, transcript, notion, tracker>>
    /\ hd.pc = "idle"
    /\ last_known_entries' =
          IF is_backend_available /\ backend # "down"
          THEN backend_history(accepted, MaxEntries)
          ELSE last_known_entries

\* ---- sync_command: the manual drain ----

\* Lines 557-577: the two early returns, or the "attempting to sync" reply.
SyncCommand ==
    /\ UNCHANGED <<save_vars, bot_vars, audit>>
    /\ hd.pc = "idle"
    /\ IF pending_entries = <<>> \/ ~is_backend_available
       THEN hd' = [HdIdle EXCEPT !.after = drain_prev]
       ELSE hd' = [HdIdle EXCEPT !.pc = "sync_reply", !.after = "none"]
    /\ hc' = [hc EXCEPT !.scenario = FALSE]
    /\ UNCHANGED <<pending_entries, is_backend_available, backend, accepted, next_entry,
                   flush_prompt, drain_prev>>

\* Lines 580-584: after the reply, the loop starts over a copy of the list.
SyncSnapshot ==
    /\ UNCHANGED <<save_vars, bot_vars, audit>>
    /\ hd.pc = "sync_reply"
    /\ hd' = [hd EXCEPT !.pc = IF pending_entries = <<>> THEN "idle" ELSE "sync_post",
                        !.snapshot = pending_entries,
                        !.idx = IF pending_entries = <<>> THEN 0 ELSE 1,
                        !.after = drain_prev,
                        !.res = IF pending_entries = <<>> THEN "none" ELSE "ok"]
    /\ drain_prev' = IF pending_entries = <<>> /\ hc.pc # "drain" THEN "ok" ELSE "none"
    /\ UNCHANGED <<pending_entries, is_backend_available, backend, accepted, next_entry,
                   hc, flush_prompt>>

\* Lines 585-596: one submission of the manual drain and its bookkeeping.
SyncPost(o) ==
    /\ UNCHANGED <<save_vars, bot_vars>>
    /\ hd.pc = "sync_post"
    /\ o \in SubmitOutcomes(backend)
    /\ LET e == hd.snapshot[hd.idx]
           removed == o = "200" /\ InSeq(pending_entries, e)
           last == hd.idx = Len(hd.snapshot)
           res == failed_res(hd.res, o)
       IN  /\ accepted' = IF backend_accepts(o) THEN accept(accepted, e) ELSE accepted
           /\ audit' = audit_drain(audit, e, o)
           /\ pending_entries' = drain_remove(pending_entries, e, o)
           /\ hd' = [hd EXCEPT !.pc = IF last THEN "idle" ELSE "sync_post",
                               !.idx = IF last THEN 0 ELSE @ + 1,
                               !.snapshot = IF last THEN <<>> ELSE @,
                               !.synced = IF last THEN 0 ELSE IF removed THEN @ + 1 ELSE @,
                               !.failed = IF last THEN 0 ELSE IF removed THEN @ ELSE @ + 1,
                               !.res = IF last THEN "none" ELSE res,
                               !.persisted = @ \/ (hd.after # "none" /\ backend_accepts(o)),
                               !.last200 = (o = "200")]
           /\ drain_prev' = IF last /\ hc.pc # "drain" THEN res ELSE drain_prev
           /\ hc' = [hc EXCEPT !.scenario = FALSE,
                               !.added = IF removed THEN @ \ {e} ELSE @]
    /\ UNCHANGED <<is_backend_available, backend, next_entry, flush_prompt>>

\* ---- check_backend_health and sync_pending_entries ----

\* Lines 651-653: the probe and the comparison with the stored flag.
HealthCheck ==
    /\ UNCHANGED <<save_vars, bot_vars, audit>>
    /\ hc.pc = "idle"
    /\ LET is_available == check_backend(backend)
           recovery == /\ is_available
                       /\ pending_entries # <<>>
                       /\ hd.pc \notin {"sync_reply", "sync_post"}
       IN
       IF is_available # is_backend_available
       THEN /\ is_backend_available' = is_available
            /\ hc' = [hc EXCEPT !.pc = "notify", !.is_available = is_available,
                                !.drains = 0, !.scenario = recovery,
                                !.enq = @ /\ recovery,
                                !.last200 = FALSE, !.added = {},
                                !.change = IF is_available THEN "up" ELSE "down",
                                !.notified = <<>>,
                                !.probe = probe_result(backend), !.gets = probe_gets]
       ELSE /\ hc' = [hc EXCEPT !.is_available = is_available, !.drains = 0,
                                !.scenario = FALSE, !.enq = FALSE,
                                !.last200 = FALSE, !.added = {},
                                !.change = "same", !.notified = <<>>,
                                !.probe = probe_result(backend), !.gets = probe_gets]
            /\ UNCHANGED is_backend_available
    /\ UNCHANGED <<pending_entries, backend, accepted, next_entry, hd, flush_prompt,
                   drain_prev>>

\* Lines 656-672: the status messages are out; on recovery with entries
\* pending, sync_pending_entries starts over a copy of the list.
HealthNotify ==
    /\ UNCHANGED <<save_vars, bot_vars, audit>>
    /\ hc.pc = "notify"
    /\ LET told == status_notifications(allowed_chat_ids)
           change == IF hc.change # "up" THEN hc.change
                     ELSE IF pending_entries # <<>> THEN "up_pending" ELSE "up_empty"
       IN
       IF should_sync(hc.is_available, pending_entries)
       THEN /\ hc' = [hc EXCEPT !.pc = "drain", !.snapshot = pending_entries, !.idx = 1,
                                !.drains = @ + 1, !.after = drain_prev, !.res = "ok",
                                !.persisted = FALSE,
                                !.notified = told, !.change = change]
            /\ drain_prev' = "none"
       ELSE /\ hc' = [hc EXCEPT !.pc = "idle", !.notified = told, !.change = change]
            /\ UNCHANGED drain_prev
    /\ UNCHANGED <<pending_entries, is_backend_available, backend, accepted, next_entry,
                   hd, flush_prompt>>

\* Lines 673-689: one submission of the automatic drain.
AutoDrainPost(o) ==
    /\ UNCHANGED <<save_vars, bot_vars>>
    /\ hc.pc = "drain"
    /\ o \in SubmitOutcomes(backend)
    /\ LET e == hc.snapshot[hc.idx]
           last == hc.idx = Len(hc.snapshot)
           res == failed_res(hc.res, o)
       IN  /\ accepted' = IF backend_accepts(o) THEN accept(accepted, e) ELSE accepted
           /\ audit' = audit_drain(audit, e, o)
           /\ pending_entries' = drain_remove(pending_entries, e, o)
           /\ hc' = [hc EXCEPT !.pc = IF last THEN "idle" ELSE "drain",
                               !.idx = IF last THEN 0 ELSE @ + 1,
                               !.snapshot = IF last THEN <<>> ELSE @,
                               !.res = IF last THEN "none" ELSE res,
                               !.persisted = @ \/ (hc.after # "none" /\ backend_accepts(o)),
                               !.scenario = @ /\ o = "200",
                               !.last200 = (o = "200")]
           /\ drain_prev' = IF last /\ hd.pc # "sync_post" THEN res ELSE drain_prev
    /\ UNCHANGED <<is_backend_available, backend, next_entry, hd, flush_prompt>>

\* ---- the backend ----

BackendFlips ==
    /\ UNCHANGED <<save_vars, bot_vars, audit>>
    /\ backend \in {"up", "down"}
    /\ backend' = IF backend = "up" THEN "down" ELSE "up"
    /\ UNCHANGED <<pending_entries, is_backend_available, accepted, next_entry, hd, hc,
                   flush_prompt, drain_prev>>

\* From here on the backend answers every probe and accepts every submission.
BackendStabilises ==
    /\ UNCHANGED <<save_vars, bot_vars, audit>>
    /\ backend \in {"up", "down"}
    /\ backend' = "stable"
    /\ UNCHANGED <<pending_entries, is_backend_available, accepted, next_entry, hd, hc,
                   flush_prompt, drain_prev>>

----------------------------------------------------------------------------
(* The other handlers and functions, before any of them has run *)

ViewIdle == [limit |-> 0, out |-> <<>>, done |-> FALSE]

\* The handler is inside its try, at the await of the adapter's save call.
HandlerIdle == [pc |-> "save", status |-> "", reactions |-> <<>>, replies |-> 0,
                ended |-> "running"]

\* No message has reached the handler built by reply_builder.
DispatchIdle == [allowed |-> FALSE, accepts |-> <<>>, i |-> 0, ran |-> <<>>,
                 fallback |-> 0, pc |-> "start"]

TranscriptIdle == [text |-> <<>>, messages |-> <<>>, done |-> FALSE]

\* _chunk_text_for_notion has not been called.
NotionIdle == [text |-> <<>>, max_chunk_size |-> 1, chunks |-> <<>>, done |-> FALSE]

\* NetworkErrorTracker.__init__ at minute 0, nothing logged; `recorded` keeps
\* the time of every network error the handler was called for.
NoLog == [level |-> "none", network |-> FALSE, at |-> 0, error_count |-> 0]
TrackerIdle == [recent_errors |-> <<>>, now |-> 0, logged |-> NoLog, recorded |-> <<>>]

BotIdle ==
    /\ last_known_entries = <<>>
    /\ view = ViewIdle
    /\ handler = HandlerIdle
    /\ dispatch = DispatchIdle
    /\ transcript = TranscriptIdle
    /\ notion = NotionIdle
    /\ tracker = TrackerIdle

----------------------------------------------------------------------------
(* Specifications of the save path *)

InitSaveOver(S) ==
    /\ max_retries \in 0..MaxRetries
    /\ retry_delay \in 0..MaxDelay
    /\ pc = [s \in S |-> "idle"]
    /\ call = [s \in S |-> NoCall]
    /\ formatted_message_id = [s \in S |-> ""]
    /\ attempt = [s \in S |-> 0]
    /\ last_error = [s \in S |-> "none"]
    /\ posts = [s \in S |-> 0]
    /\ waits = [s \in S |-> <<>>]
    /\ hist = [s \in S |-> <<>>]
    /\ outcome = [s \in S |-> NoOutcome]
    /\ prior = [s \in S |-> FALSE]
    /\ returned = {}
    /\ remote = <<>>
    /\ submitted = {}
    /\ calls = 0
    /\ latest = [k \in SaveKeys |-> NoEdit]

\* A single save call meeting every kind of outcome.
InitSave == InitSaveOver(OneSaver) /\ SleepIdle /\ BotIdle

NextSave ==
    \/ \E s \in DOMAIN pc, op \in Ops, m \in MessageIds, c \in ChatIds, t \in Texts :
          Submit(s, op, m, c, t)
    \/ \E s \in DOMAIN pc, o \in AllOutcomes : Attempt(s, o)
    \/ \E s \in DOMAIN pc : Wake(s)

SpecSave == InitSave /\ [][NextSave]_vars

\* Two save calls, possibly for the same message, running concurrently against
\* the /notes endpoint, with the default retry_delay.
UpsertOutcomes ==
    {o \in AllOutcomes :
        \/ o.type = "response" /\ o.status \in {200, 404} /\ o.body \in {"full", "error"}
        \/ o.type = "timeout"}

InitUpsert ==
    /\ InitSaveOver(Savers)
    /\ SleepIdle
    /\ BotIdle
    /\ max_retries \in 1..MaxUpsertRetries
    /\ retry_delay = 1

NextUpsert ==
    \/ \E s \in DOMAIN pc, m \in MessageIds, c \in ChatIds, t \in Texts :
          calls < MaxCalls /\ Submit(s, "save_note", m, c, t)
    \/ \E s \in DOMAIN pc, o \in UpsertOutcomes : Attempt(s, o)
    \/ \E s \in DOMAIN pc : Wake(s)
    \/ \E s \in DOMAIN pc : Return(s)

SpecUpsert == InitUpsert /\ [][NextUpsert]_vars

----------------------------------------------------------------------------
(* Specifications of the sleep bot *)

\* The adapter's variables while only the sleep bot runs.
SaveIdle ==
    /\ InitSaveOver(OneSaver)
    /\ max_retries = 3
    /\ retry_delay = 1

SleepStart ==
    /\ SaveIdle
    /\ BotIdle
    /\ pending_entries = <<>>
    /\ is_backend_available = FALSE
    /\ backend \in {"up", "down"}
    /\ accepted = [e \in EntryIds |-> 0]
    /\ next_entry = 1
    /\ hd = HdIdle
    /\ hc = HcIdle
    /\ flush_prompt = FALSE
    /\ drain_prev = "none"

HandlerStep ==
    \/ RatingStart
    \/ \E o \in {"200", "lost", "status", "raised"} : RatingPost(o)
    \/ \E ok \in BOOLEAN : RatingEdit(ok)

ManualStep ==
    \/ FlushMemory
    \/ FlushConfirm
    \/ SyncCommand
    \/ SyncSnapshot
    \/ \E o \in {"200", "lost", "status", "raised"} : SyncPost(o)

MonitorStep ==
    \/ HealthCheck
    \/ HealthNotify
    \/ \E o \in {"200", "lost", "status", "raised"} : AutoDrainPost(o)

\* Check-ins, /sync, /flush and the monitor, over a backend that comes and goes.
NextSleep ==
    \/ HandlerStep
    \/ ManualStep
    \/ MonitorStep
    \/ BackendFlips

InitSleep == SleepStart /\ audit = AuditOff

SpecSleep == InitSleep /\ [][NextSleep]_vars

\* The same with the bookkeeping of the drains' submissions kept.
InitSleepAudit == SleepStart /\ audit = AuditOn

SpecSleepAudit == InitSleepAudit /\ [][NextSleep]_vars

\* The same with /history, which refreshes last_known_entries.
NextSleepAll ==
    \/ HandlerStep
    \/ History
    \/ ManualStep
    \/ MonitorStep
    \/ BackendFlips

SpecSleepAll == InitSleep /\ [][NextSleepAll]_vars

\* The bot left to its automatic sync: the user checks in but sends neither
\* /sync nor /flush; the backend may at some point become available for good.
\* The job queue keeps running the health check, and every awaited call of a
\* started handler or job returns.
NextSleepAuto ==
    \/ HandlerStep
    \/ MonitorStep
    \/ BackendFlips
    \/ BackendStabilises

FairSleepAuto ==
    /\ WF_vars(HealthCheck)
    /\ WF_vars(HealthNotify)
    /\ WF_vars(\E o \in {"200", "lost", "status", "raised"} : AutoDrainPost(o))
    /\ WF_vars(\E o \in {"200", "lost", "status", "raised"} : RatingPost(o))
    /\ WF_vars(\E ok \in BOOLEAN : RatingEdit(ok))

SpecSleepAuto ==
    InitSleep /\ [][NextSleepAuto]_vars /\ FairSleepAuto

----------------------------------------------------------------------------
(* Properties of one save call *)

\* The retryable errors: a 5xx status, a timeout, a connection/request error.
RetryableOutcome(h) ==
    \/ h.type = "response" /\ h.status >= 500 /\ h.status < 600
    \/ h.type \in {"timeout", "request_error"}

\* The fatal errors: a 4xx status, a malformed 2xx body, an uncategorized exception.
FatalOutcome(h) ==
    \/ h.type = "response" /\ h.status >= 400 /\ h.status < 500
    \/ h.type = "response" /\ is_success(h.status) /\ h.body # "full"
    \/ h.type = "exception"

AllRetryable(s) == \A i \in 1..Len(hist[s]) : RetryableOutcome(hist[s][i])

\* C1: a finished save call whose every attempt met a retryable error issued
\* exactly max_retries POSTs and, having made an attempt, ended by raising.
\* (A call configured with max_retries = 0 makes no attempt; how it ends is
\* the subject of C6.)
C1_RetryableExhaustsBudget ==
    \A s \in DOMAIN pc :
        (pc[s] = "done" /\ AllRetryable(s)) =>
            /\ posts[s] = max_retries
            /\ (posts[s] >= 1 => outcome[s].kind = "error")

C1_Witness ==
    \E s \in DOMAIN pc :
        /\ pc[s] = "done" /\ AllRetryable(s) /\ posts[s] = 3 /\ max_retries = 3
        /\ outcome[s].kind = "error"
        /\ {hist[s][i].type : i \in 1..3} = {"response", "timeout", "request_error"}

\* C2 as stated: with every attempt so far retryable, the wait before attempt
\* i (numbered from 1) is retry_delay * 2^(i-1).  waits[s][i-1] is the wait
\* that precedes attempt i.
C2_WaitBeforeAttempt_Original ==
    \A s \in DOMAIN pc :
        AllRetryable(s) =>
            \A i \in 2..(Len(waits[s]) + 1) :
                waits[s][i - 1] = retry_delay * (2 ^ (i - 1))

\* C2 amended: with every attempt so far retryable, each attempt i >= 2 is
\* preceded by exactly one wait, of retry_delay * 2^(i-2): the first wait is
\* retry_delay itself and each later one doubles.
C2_WaitBeforeAttempt ==
    \A s \in DOMAIN pc :
        AllRetryable(s) =>
            /\ \A i \in 2..(Len(waits[s]) + 1) :
                  waits[s][i - 1] = retry_delay * (2 ^ (i - 2))
            /\ (pc[s] = "attempting" => Len(waits[s]) = posts[s])
            /\ (pc[s] = "done" /\ posts[s] >= 1 => Len(waits[s]) = posts[s] - 1)

C2_Witness ==
    \E s \in DOMAIN pc :
        /\ pc[s] = "done" /\ AllRetryable(s) /\ retry_delay = 2
        /\ waits[s] = <<2, 4>> /\ posts[s] = 3

\* C3: an attempt that met a fatal error is the last attempt of its call: the
\* call has ended by raising, no wait followed the attempt and no POST was
\* issued after it, whatever max_retries is.
C3_FatalStopsAtAttempt ==
    \A s \in DOMAIN pc :
        \A k \in 1..Len(hist[s]) :
            FatalOutcome(hist[s][k]) =>
                /\ k = Len(hist[s])
                /\ posts[s] = k
                /\ Len(waits[s]) = k - 1
                /\ pc[s] = "done"
                /\ outcome[s].kind = "error"

C3_Witness ==
    \E s \in DOMAIN pc :
        /\ Len(hist[s]) = 2 /\ max_retries = 3
        /\ hist[s][2].type = "response" /\ hist[s][2].status = 404
        /\ pc[s] = "done" /\ posts[s] = 2

\* C6 as stated: a finished save call has either returned a result carrying
\* status, remote id and wire identifier, or raised an error.
C6_EndsWithResultOrError ==
    \A s \in DOMAIN pc :
        pc[s] = "done" =>
            \/ outcome[s].kind = "error"
            \/ /\ outcome[s].kind = "result"
               /\ outcome[s].status \in {"created", "updated"}
               /\ outcome[s].id >= 1
               /\ outcome[s].message_id = formatted_message_id[s]

\* The attempt met the given status answered by the remote.
MetStatus(h, st) == h.type = "response" /\ h.status = st

\* C11: with max_retries = 3 and retry_delay = 1, a call whose attempts 1 and
\* 2 were answered 503 is still running after them, having slept 1 and then
\* 2; when attempt 3 is answered 200 with a well-formed body the call has
\* returned a result after exactly three POSTs, and these two are its only
\* waits.
C11_SucceedsOnThirdAttempt ==
    \A s \in DOMAIN pc :
        ( /\ max_retries = 3 /\ retry_delay = 1
          /\ Len(hist[s]) >= 2
          /\ MetStatus(hist[s][1], 503) /\ MetStatus(hist[s][2], 503) ) =>
            /\ Len(hist[s]) = 2 =>
                  /\ pc[s] \in {"waiting", "attempting"}
                  /\ waits[s] = <<1, 2>>
            /\ (Len(hist[s]) = 3 /\ MetStatus(hist[s][3], 200)
                  /\ hist[s][3].body = "full") =>
                  /\ pc[s] = "done"
                  /\ outcome[s].kind = "result"
                  /\ posts[s] = 3
                  /\ waits[s] = <<1, 2>>

C11_Witness ==
    \E s \in DOMAIN pc :
        /\ max_retries = 3 /\ retry_delay = 1
        /\ Len(hist[s]) = 3
        /\ MetStatus(hist[s][1], 503) /\ MetStatus(hist[s][2], 503)
        /\ MetStatus(hist[s][3], 200) /\ hist[s][3].body = "full"
        /\ outcome[s].kind = "result" /\ waits[s] = <<1, 2>>

\* C12: a call whose first attempt was answered 404 has ended by raising,
\* after that single POST and without any wait, whatever max_retries is.
C12_NotFoundFailsAtOnce ==
    \A s \in DOMAIN pc :
        (Len(hist[s]) >= 1 /\ MetStatus(hist[s][1], 404)) =>
            /\ Len(hist[s]) = 1
            /\ posts[s] = 1
            /\ waits[s] = <<>>
            /\ pc[s] = "done"
            /\ outcome[s].kind = "error"
            /\ outcome[s].code = 404

C12_Witness ==
    \E s \in DOMAIN pc :
        /\ max_retries = 3
        /\ Len(hist[s]) = 1 /\ MetStatus(hist[s][1], 404)
        /\ pc[s] = "done" /\ outcome[s].kind = "error" /\ waits[s] = <<>>

\* C13: every wait of a call follows a failed attempt of one of the three
\* retried kinds, and the wait after the attempt of 0-based index a is
\* retry_delay * 2^a whichever of the kinds it was (waits[s][a + 1] follows
\* the attempt recorded in hist[s][a + 1]).
C13_WaitDependsOnIndexOnly ==
    \A s \in DOMAIN pc :
        /\ Len(waits[s]) <= Len(hist[s])
        /\ \A a \in 0..(Len(waits[s]) - 1) :
              /\ waits[s][a + 1] = retry_delay * (2 ^ a)
              /\ \/ hist[s][a + 1].type = "response" /\ hist[s][a + 1].status >= 500
                 \/ hist[s][a + 1].type \in {"timeout", "request_error"}

C13_Witness ==
    \E s \in DOMAIN pc :
        /\ retry_delay = 2 /\ waits[s] = <<2, 4>>
        /\ hist[s][1].type = "timeout"
        /\ hist[s][2].type = "request_error"
        /\ Len(hist[s]) = 3 /\ MetStatus(hist[s][3], 503)

\* C14: a call never issues more than max_retries POSTs, whatever its
\* attempts meet.
C14_AtMostMaxRetriesPosts ==
    \A s \in DOMAIN pc :
        /\ posts[s] <= max_retries
        /\ posts[s] = Len(hist[s])

C14_Witness ==
    \E s \in DOMAIN pc :
        /\ max_retries = 2 /\ posts[s] = 2 /\ pc[s] = "done"
        /\ hist[s][1].type = "request_error" /\ MetStatus(hist[s][2], 600)

\* The attempt was answered 2xx with a body lacking the status field or the
\* remote-assigned identifier.
MalformedSuccess(h) ==
    h.type = "response" /\ h.status >= 200 /\ h.status < 300
        /\ h.body \in {"no_status", "no_id"}

\* C15: an attempt answered 2xx with a body that lacks the status field or the
\* identifier is the last attempt of its call, for both save operations: the
\* call has ended by raising, without a wait or a POST after that attempt.
C15_MalformedSuccessIsFatal ==
    \A s \in DOMAIN pc :
        \A k \in 1..Len(hist[s]) :
            MalformedSuccess(hist[s][k]) =>
                /\ k = Len(hist[s])
                /\ posts[s] = k
                /\ Len(waits[s]) = k - 1
                /\ pc[s] = "done"
                /\ outcome[s].kind = "error"
                /\ outcome[s].msg = "unexpected"

C15_Witness ==
    \E s \in DOMAIN pc :
        /\ max_retries = 3 /\ Len(hist[s]) = 2
        /\ hist[s][1].type = "timeout"
        /\ MetStatus(hist[s][2], 200) /\ hist[s][2].body = "no_id"
        /\ call[s].op = "save_food_log"
        /\ pc[s] = "done" /\ outcome[s].kind = "error" /\ Len(waits[s]) = 1

\* C16: applied to the exception of any failed attempt, _is_retryable_error
\* answers retryable exactly for a timeout, another request error, or a status
\* error with 500 <= status < 600; a status error in [400, 500), a validation
\* error and any other exception are answered fatal.
C16_ClassifierMatchesTaxonomy ==
    \A s \in DOMAIN pc :
        \A k \in 1..Len(hist[s]) :
            error_of(hist[s][k]).class # "none" =>
                /\ is_retryable_error(error_of(hist[s][k])) <=>
                      RetryableOutcome(hist[s][k])
                /\ FatalOutcome(hist[s][k]) =>
                      ~is_retryable_error(error_of(hist[s][k]))

C16_Witness ==
    \E s \in DOMAIN pc :
        /\ Len(hist[s]) = 3
        /\ hist[s][1].type = "request_error"
        /\ MetStatus(hist[s][2], 503)
        /\ MetStatus(hist[s][3], 404)
        /\ is_retryable_error(error_of(hist[s][1]))
        /\ is_retryable_error(error_of(hist[s][2]))
        /\ ~is_retryable_error(error_of(hist[s][3]))

\* The call ended because its last permitted attempt met an error the loop
\* retries.
Exhausted(s) ==
    /\ pc[s] = "done" /\ posts[s] >= 1 /\ posts[s] = max_retries
    /\ LET h == hist[s][Len(hist[s])] IN
          \/ h.type = "response" /\ h.status >= 500
          \/ h.type \in {"timeout", "request_error"}

\* C17: a call that ended with its retries exhausted raised an error whose
\* message names the cause of the last attempt: "API request timeout: ..."
\* for a timeout, "API request error: ..." for a request error, and "API
\* request failed: <status>" for a server status; the three differ.
C17_ExhaustedErrorNamesCause ==
    \A s \in DOMAIN pc :
        Exhausted(s) =>
            LET h == hist[s][Len(hist[s])] IN
            /\ outcome[s].kind = "error"
            /\ (h.type = "timeout") <=> (outcome[s].msg = "timeout")
            /\ (h.type = "request_error") <=> (outcome[s].msg = "request_error")
            /\ (h.type = "response") <=>
                  (outcome[s].msg = "failed_status" /\ outcome[s].code = h.status)

C17_Witness ==
    \E s \in DOMAIN pc :
        /\ Exhausted(s) /\ max_retries = 3
        /\ MetStatus(hist[s][1], 503)
        /\ hist[s][2].type = "request_error"
        /\ hist[s][3].type = "timeout"
        /\ outcome[s].msg = "timeout"

Retried(s, k) == k < Len(hist[s]) \/ pc[s] # "done"

\* C33: for every failed attempt after which an iteration of the loop
\* remains, the loop retried it exactly when _is_retryable_error classifies
\* its exception as retryable.
C33_LoopAgreesWithClassifier ==
    \A s \in DOMAIN pc :
        \A k \in 1..Len(hist[s]) :
            error_of(hist[s][k]).class # "none" /\ may_retry(k - 1) =>
                (Retried(s, k) <=> is_retryable_error(error_of(hist[s][k])))

----------------------------------------------------------------------------
(* Properties of saves against the upserting remote *)

\* C4: a save that begins after a save of the same message (same endpoint,
\* message_id and chat_id) has returned a result, and that itself returns a
\* result, returns the status 'updated'.
C4_SecondSaveUpdated ==
    \A s \in DOMAIN pc :
        (pc[s] = "done" /\ outcome[s].kind = "result" /\ prior[s]) =>
            outcome[s].status = "updated"

C4_Witness ==
    \E s \in DOMAIN pc :
        /\ pc[s] = "done" /\ outcome[s].kind = "result" /\ prior[s]
        /\ outcome[s].status = "updated" /\ call[s].chat_id # NoChat

\* No save call is between its submission and its end.
AllSavesFinished == \A s \in DOMAIN pc : pc[s] \in {"idle", "done"}

\* The remote holds a record under the identifier with this text.
StoredText(k, t) ==
    \E i \in remote_index(remote, k[1], k[2]) : remote[i].text = t

SubmittedWires == {<<t[1], format_message_id(t[2], t[3])>> : t \in submitted}

\* C5: the remote never holds more than one record for a wire identifier that
\* saves were submitted under, holds no record under any other identifier, and
\* holds exactly one for the identifier of a save that returned a result;
\* retried attempts and concurrent saves included.
C5_SingleRecordPerIdentifier ==
    /\ \A w \in SubmittedWires : Cardinality(remote_index(remote, w[1], w[2])) <= 1
    /\ \A i \in 1..Len(remote) : <<remote[i].op, remote[i].message_id>> \in SubmittedWires
    /\ \A s \in DOMAIN pc :
          outcome[s].kind = "result" =>
              Cardinality(remote_index(remote, call[s].op, formatted_message_id[s])) = 1

C5_Witness ==
    \E s, r \in DOMAIN pc :
        /\ s # r
        /\ formatted_message_id[s] = formatted_message_id[r]
        /\ pc[s] = "done" /\ outcome[s].kind = "result" /\ posts[s] = 2
        /\ pc[r] = "waiting" /\ posts[r] = 1
        /\ Len(remote) = 1

\* The wire identifier of a message: "{chat_id}_{message_id}" with a chat id,
\* the bare message_id without.
Wire(m, c) == IF c = NoChat THEN m ELSE c \o "_" \o m

\* C18: every call carries the wire identifier of its message, every record
\* of the remote is stored under the wire identifier of a submitted message,
\* a returned result echoes it and the remote then holds a record under it;
\* two calls for the same message (a first send and a later edit, or two
\* running at once) carry the same identifier.
C18_WireIdentifier ==
    /\ \A s \in DOMAIN pc :
          call[s] # NoCall =>
              /\ formatted_message_id[s] = Wire(call[s].message_id, call[s].chat_id)
              /\ outcome[s].kind = "result" =>
                    /\ outcome[s].message_id = Wire(call[s].message_id, call[s].chat_id)
                    /\ \E i \in 1..Len(remote) :
                          remote[i].message_id =
                              Wire(call[s].message_id, call[s].chat_id)
    /\ \A i \in 1..Len(remote) :
          \E t \in submitted : remote[i].message_id = Wire(t[2], t[3])
    /\ \A s, r \in DOMAIN pc :
          ( /\ call[s] # NoCall /\ call[r] # NoCall
            /\ call[s].message_id = call[r].message_id
            /\ call[s].chat_id = call[r].chat_id ) =>
              formatted_message_id[s] = formatted_message_id[r]

C18_Witness ==
    \E s \in DOMAIN pc :
        /\ pc[s] = "done" /\ outcome[s].kind = "result" /\ prior[s]
        /\ call[s].message_id = "7" /\ call[s].chat_id = "1"
        /\ outcome[s].message_id = "1_7"
        /\ Len(remote) = 1 /\ remote[1].message_id = "1_7"
        /\ remote[1].text = call[s].text

----------------------------------------------------------------------------
(* Properties of the sleep bot's offline cache and drains *)

\* C7 as stated: once the backend is available for good and accepts every
\* submission, and with the health check running forever, an entry that is in
\* pending_entries and that the backend has not stored is eventually accepted
\* by the backend.  The user sends neither /sync nor /flush, so only the
\* automatic sync can submit it.
C7_PendingEventuallySynced ==
    \A e \in EntryIds :
        [](backend = "stable" /\ InSeq(pending_entries, e) /\ accepted[e] = 0
             => <>(accepted[e] >= 1))

C9_RecoveryDrainsOnce ==
    (hc.pc = "idle" /\ hc.scenario) =>
        /\ hc.drains = 1
        /\ pending_entries = <<>>

C9_Witness ==
    /\ hc.pc = "idle" /\ hc.scenario /\ hc.enq /\ hc.drains = 1
    /\ pending_entries = <<>>
    /\ \A e \in EntryIds : accepted[e] = 1
    /\ is_backend_available

\* C10 as stated: the automatic drain and the manual drain are never both
\* between their first and their last submission.
C10_AtMostOneDrain == ~(hc.pc = "drain" /\ hd.pc = "sync_post")

\* The list q2 is q after one submission of entry e: with the answer 200 and
\* e on the list, one occurrence of e is gone and everything else is where it
\* was; otherwise nothing changed.
AfterSubmission(q, q2, e, ok) ==
    IF ok /\ InSeq(q, e)
    THEN \E i \in 1..Len(q) :
            /\ q[i] = e
            /\ q2 = SubSeq(q, 1, i - 1) \o SubSeq(q, i + 1, Len(q))
    ELSE q2 = q

\* C19: in every step in which a drain, automatic or manual, handles the
\* answer to the submission of an entry, the entry leaves pending_entries if
\* and only if the answer is HTTP 200; with another status or an exception
\* the list is left as it was, and in both cases the other entries keep
\* their order.
C19_RemovedIffSubmitted ==
    [][ /\ (hc.pc = "drain" /\ hc'.idx # hc.idx) =>
              AfterSubmission(pending_entries, pending_entries',
                              hc.snapshot[hc.idx], hc'.last200)
        /\ (hd.pc = "sync_post" /\ hd'.idx # hd.idx) =>
              AfterSubmission(pending_entries, pending_entries',
                              hd.snapshot[hd.idx], hd'.last200) ]_vars

\* An automatic drain over <<1, 2>> has just ended: entry 1 was refused and
\* is still pending, entry 2 was answered 200 and is gone.
C19_Witness ==
    /\ hc.pc = "idle" /\ hc.last200 /\ hc.added = {}
    /\ pending_entries = <<1>>
    /\ accepted = <<0, 1>>

\* C20: an entry queued while the automatic drain is suspended at a
\* submission stays in pending_entries, during that drain and when it has
\* ended (unless the user flushes the list); the drain goes on over its copy
\* of the list and reaches its end.
C20_EnqueueDuringDrainKept ==
    /\ [](\A e \in hc.added : InSeq(pending_entries, e))
    /\ [](hc.pc = "drain" => hc.idx \in 1..Len(hc.snapshot))
    /\ (hc.pc = "drain" ~> hc.pc = "idle")

C20_Witness ==
    /\ hc.pc = "idle" /\ hc.last200
    /\ hc.added = {2}
    /\ pending_entries = <<2>>
    /\ accepted[1] = 1

----------------------------------------------------------------------------
(* Properties of the health monitor and the cache *)

StatusChanged == hc.change \in {"down", "up_empty", "up_pending"}

\* C21: once the status loop of a health check is over, a status message has
\* been sent exactly once to each allowed chat, in the order of the list, when
\* the probe differed from the stored flag, and to no chat when it equalled it;
\* before the loop nothing has been sent.
C21_OneNotificationPerChange ==
    /\ hc.pc = "notify" => hc.notified = <<>>
    /\ hc.pc \in {"idle", "drain"} =>
          hc.notified = IF StatusChanged THEN allowed_chat_ids ELSE <<>>

C21_Witness ==
    /\ hc.pc = "idle"
    /\ hc.change = "down"
    /\ hc.notified = allowed_chat_ids
    /\ Len(hc.notified) = 2

\* C22 as stated: after a health check that found the backend newly
\* available, one drain has been started, whatever the list held; after any
\* other health check, none.
C22_DrainPerRecovery_Original ==
    hc.pc \in {"idle", "drain"} =>
        hc.drains = IF hc.change \in {"up_empty", "up_pending"} THEN 1 ELSE 0

\* C22 amended: a health check that found the backend newly available starts
\* exactly one drain when pending_entries is not empty once the status
\* messages are out, and none when it is empty; any other health check starts
\* none.
C22_DrainPerRecovery ==
    /\ hc.pc = "notify" => hc.drains = 0
    /\ hc.pc \in {"idle", "drain"} =>
          hc.drains = IF hc.change = "up_pending" THEN 1 ELSE 0

C22_Witness ==
    /\ hc.pc = "drain"
    /\ hc.change = "up_pending"
    /\ hc.drains = 1

\* C23: every step that changes is_backend_available is the comparison of a
\* health check; check-ins, failed submissions, drains, /sync, /flush and
\* /history leave it as it was.
C23_OnlyHealthCheckSetsFlag ==
    [][is_backend_available' # is_backend_available =>
          /\ hc.pc = "idle"
          /\ hc'.pc = "notify"
          /\ hd' = hd
          /\ pending_entries' = pending_entries
          /\ last_known_entries' = last_known_entries]_vars

\* A check-in failed against a backend thought available, and /history ran
\* and refreshed last_known_entries: the flag is still up.
C23_Witness ==
    /\ is_backend_available
    /\ backend = "down"
    /\ hd.pc = "idle"
    /\ hd.queued = 1
    /\ pending_entries # <<>>
    /\ last_known_entries # <<>>

\* C24: after a health check whose probe failed, a single GET was made and
\* the stored flag says unavailable, until the next health check.
C24_FailedProbeLeavesUnavailable ==
    hc.probe = "failed" => ~is_backend_available /\ hc.gets = 1

C24_Witness ==
    /\ hc.probe = "failed"
    /\ hc.change = "down"
    /\ hc.pc = "idle"
    /\ ~is_backend_available

\* The handler step queues its entry: it made one more add_pending_entry call.
Enqueues ==
    IF hd.pc = "idle"
    THEN hd'.pc = "rating_edit" /\ hd'.queued = 1
    ELSE hd'.queued = hd.queued + 1

\* C26: every add_pending_entry call puts its entry at the end of
\* pending_entries: the list grows by one and the entries already there keep
\* their places, also when the entry is already in the list.
C26_AppendWithoutDedup ==
    [][Enqueues =>
          /\ pending_entries' = pending_entries \o <<hd'.entry>>
          /\ Len(pending_entries') = Len(pending_entries) + 1]_vars

\* The same check-in queued twice: offline at first, then when its
\* confirmation could not be shown.
C26_Witness ==
    /\ hd.queued = 2
    /\ Len(pending_entries) >= 2
    /\ pending_entries[Len(pending_entries)] = hd.entry
    /\ pending_entries[Len(pending_entries) - 1] = hd.entry

\* C34: when button_callback ends the handling of a rating, the new entry
\* has been accepted by the backend or is in pending_entries.
C34_EntryNotDropped ==
    [][hd.pc \in {"rating_post", "rating_edit"} /\ hd'.pc = "idle" =>
          \/ accepted'[hd.entry] >= 1
          \/ InSeq(pending_entries', hd.entry)]_vars

\* A rating whose POST failed against a backend still flagged available: the
\* handler is over, the backend does not have the entry, the list has it.
C34_Witness ==
    /\ hd.pc = "idle"
    /\ hd.entry >= 1
    /\ hd.queued = 1
    /\ is_backend_available
    /\ accepted[hd.entry] = 0
    /\ InSeq(pending_entries, hd.entry)

\* C35: pending_entries never holds an entry twice, nor an entry the backend
\* has accepted.
C35_PendingOnceAndUnaccepted ==
    /\ \A i, j \in DOMAIN pending_entries :
          i # j => pending_entries[i] # pending_entries[j]
    /\ \A i \in DOMAIN pending_entries : accepted[pending_entries[i]] = 0

\* C36: over all drains, automatic and manual, the backend accepts each
\* entry from a drain at most once.
C36_DrainAcceptsOnce ==
    \A e \in EntryIds : audit.drained[e] <= 1

\* C37: no drain submits an entry that was pending when a flush was
\* confirmed, after that flush.
C37_FlushedNeverSubmitted == ~audit.posted

----------------------------------------------------------------------------
(* BotMemoryCache.get_combined_history *)

\* Entries as the function reads them: it looks at 'timestamp' only (ISO
\* strings of one format, compared as strings; here their rank in time).
HistoryEntries == [id : {"a", "b"}, timestamp : 1..2]

SeqsUpTo(S, n) == UNION {[1..k -> S] : k \in 0..n}

\* Where sorted() puts e in a list already sorted newest first: behind every
\* entry at least as new, so that equal timestamps keep their input order.
insert_newest_first(e, t) ==
    LET k == Cardinality({i \in DOMAIN t : t[i].timestamp >= e.timestamp})
    IN  SubSeq(t, 1, k) \o <<e>> \o SubSeq(t, k + 1, Len(t))

insert_oldest_first(e, t) ==
    LET k == Cardinality({i \in DOMAIN t : t[i].timestamp <= e.timestamp})
    IN  SubSeq(t, 1, k) \o <<e>> \o SubSeq(t, k + 1, Len(t))

RECURSIVE sorted_oldest_first(_)
\* Variant: the sort without reverse=True.
sorted_oldest_first(q) ==
    IF q = <<>> THEN <<>>
    ELSE insert_oldest_first(q[Len(q)], sorted_oldest_first(SubSeq(q, 1, Len(q) - 1)))

RECURSIVE sorted_newest_first(_)
\* sorted(all_entries, key=lambda x: x['timestamp'], reverse=True)
sorted_newest_first(q) ==
    IF q = <<>> THEN <<>>
    ELSE insert_newest_first(q[Len(q)], sorted_newest_first(SubSeq(q, 1, Len(q) - 1)))

\* sorted_entries[:limit] for a limit that is not negative.
first_entries(q, limit) == SubSeq(q, 1, IF Len(q) < limit THEN Len(q) ELSE limit)

get_combined_history(pending, known, limit) ==
    first_entries(sorted_newest_first(pending \o known), limit)

\* One call; the function assigns neither list.
GetCombinedHistory ==
    /\ UNCHANGED <<save_vars, sleep_vars, last_known_entries, handler, dispatch,
                   transcript, notion, tracker>>
    /\ ~view.done
    /\ view' = [view EXCEPT
                   !.out = get_combined_history(pending_entries, last_known_entries,
                                                view.limit),
                   !.done = TRUE]

\* The cache holds any two short lists of entries, in any order.
InitView ==
    /\ SaveIdle
    /\ pending_entries \in SeqsUpTo(HistoryEntries, MaxHistory)
    /\ last_known_entries \in SeqsUpTo(HistoryEntries, MaxHistory)
    /\ view \in [limit : 0..MaxLimit, out : {<<>>}, done : {FALSE}]
    /\ audit = AuditOff
    /\ is_backend_available = FALSE
    /\ backend = "down"
    /\ accepted = [e \in EntryIds |-> 0]
    /\ next_entry = 1
    /\ hd = HdIdle
    /\ hc = HcIdle
    /\ flush_prompt = FALSE
    /\ drain_prev = "none"
    /\ handler = HandlerIdle
    /\ dispatch = DispatchIdle
    /\ transcript = TranscriptIdle
    /\ notion = NotionIdle
    /\ tracker = TrackerIdle

NextView == GetCombinedHistory

SpecView == InitView /\ [][NextView]_vars

Count(q, e) == Cardinality({i \in DOMAIN q : q[i] = e})

\* C25: a call of get_combined_history(limit) returns entries of
\* pending_entries + last_known_entries, each no more often than it occurs
\* there, newest first, as many as there are but at most limit, leaving out
\* only entries no newer than every returned one; both lists are as before.
C25_CombinedHistory ==
    [][~view.done /\ view'.done =>
          LET all == pending_entries \o last_known_entries
              out == view'.out
          IN  /\ Len(out) = IF Len(all) < view.limit THEN Len(all) ELSE view.limit
              /\ \A i, j \in DOMAIN out :
                     i < j => out[i].timestamp >= out[j].timestamp
              /\ \A e \in HistoryEntries :
                     /\ Count(out, e) <= Count(all, e)
                     /\ Count(out, e) < Count(all, e) =>
                           \A i \in DOMAIN out : out[i].timestamp >= e.timestamp
              /\ pending_entries' = pending_entries
              /\ last_known_entries' = last_known_entries]_vars

\* A pending entry newer than a known one comes first, and the third entry is
\* cut off by the limit.
C25_Witness ==
    /\ view.done
    /\ view.limit = 2
    /\ Len(pending_entries) + Len(last_known_entries) = 3
    /\ Len(view.out) = 2
    /\ Len(last_known_entries) = 2
    /\ view.out[1] = pending_entries[1]
    /\ view.out[1].timestamp > view.out[2].timestamp

----------------------------------------------------------------------------
(* action_save_note / action_save_food_log: the handler around a save call *)

\* Where the handler goes once the awaited save call is over: a dict leads to
\* the reactions (an "updated" one first clears the old reaction); an
\* exception, and None (result["status"] raises TypeError), lead to the outer
\* except clause.
after_save(o) ==
    IF o.kind = "result"
    THEN IF o.status = "updated" THEN "clear" ELSE "react"
    ELSE "done"

\* Variant: the outer except clause re-raises what the save call raised.
handler_end_reraises(o) == IF o.kind = "error" THEN "raised" ELSE "returned"

\* `except Exception as e: logging.error(...)`: nothing is sent or re-raised.
handler_end(o) == "returned"

AfterSave(s) ==
    /\ UNCHANGED <<save_vars, sleep_vars, last_known_entries, view, dispatch, transcript, notion, tracker>>
    /\ handler.pc = "save"
    /\ pc[s] = "done"
    /\ handler' = [handler EXCEPT
                      !.pc = after_save(outcome[s]),
                      !.status = outcome[s].status,
                      !.ended = IF after_save(outcome[s]) = "done"
                                THEN handler_end(outcome[s]) ELSE "running"]

\* set_message_reaction(reaction=None) for an update; its failure is ignored.
ReactClear(ok) ==
    /\ UNCHANGED <<save_vars, sleep_vars, last_known_entries, view, dispatch, transcript, notion, tracker>>
    /\ handler.pc = "clear"
    /\ handler' = [handler EXCEPT !.pc = "react",
                                  !.reactions = Append(@, <<"clear", ok>>)]

\* The reaction is set; a failure leads to the attempt with a list.
React(ok) ==
    /\ UNCHANGED <<save_vars, sleep_vars, last_known_entries, view, dispatch, transcript, notion, tracker>>
    /\ handler.pc = "react"
    /\ handler' = [handler EXCEPT !.pc = IF ok THEN "done" ELSE "react_list",
                                  !.reactions = Append(@, <<"direct", ok>>),
                                  !.ended = IF ok THEN "returned" ELSE "running"]

\* The attempt with a list; a failure leads to the attempt with a string.
ReactList(ok) ==
    /\ UNCHANGED <<save_vars, sleep_vars, last_known_entries, view, dispatch, transcript, notion, tracker>>
    /\ handler.pc = "react_list"
    /\ handler' = [handler EXCEPT !.pc = IF ok THEN "done" ELSE "react_string",
                                  !.reactions = Append(@, <<"list", ok>>),
                                  !.ended = IF ok THEN "returned" ELSE "running"]

\* The attempt with a string; its failure is logged and the handler ends.
ReactString(ok) ==
    /\ UNCHANGED <<save_vars, sleep_vars, last_known_entries, view, dispatch, transcript, notion, tracker>>
    /\ handler.pc = "react_string"
    /\ handler' = [handler EXCEPT !.pc = "done",
                                  !.reactions = Append(@, <<"string", ok>>),
                                  !.ended = "returned"]

InitHandler == InitSaveOver(OneSaver) /\ SleepIdle /\ BotIdle

\* The handler passes str(message.message_id), the message text and the chat id.
NextHandler ==
    \/ \E s \in DOMAIN pc, op \in Ops, t \in Texts : Submit(s, op, "7", "1", t)
    \/ \E s \in DOMAIN pc, o \in AllOutcomes : Attempt(s, o)
    \/ \E s \in DOMAIN pc : Wake(s)
    \/ \E s \in DOMAIN pc : AfterSave(s)
    \/ \E ok \in BOOLEAN : ReactClear(ok)
    \/ \E ok \in BOOLEAN : React(ok)
    \/ \E ok \in BOOLEAN : ReactList(ok)
    \/ \E ok \in BOOLEAN : ReactString(ok)

SpecHandler == InitHandler /\ [][NextHandler]_vars

\* C27: the handler never ends by raising and never sends a message; it is
\* over exactly when it has returned; and once a save call that raised (or
\* gave no dict) has been handled, the handler has returned without trying
\* any reaction.  It also returns when every reaction attempt has failed.
C27_SaveErrorsSwallowed ==
    /\ handler.ended # "raised"
    /\ handler.replies = 0
    /\ handler.pc = "done" <=> handler.ended = "returned"
    /\ \A s \in DOMAIN pc :
          pc[s] = "done" /\ outcome[s].kind # "result" /\ handler.pc # "save" =>
              handler.pc = "done" /\ handler.reactions = <<>>
    /\ (\E i \in DOMAIN handler.reactions : handler.reactions[i] = <<"string", FALSE>>) =>
          handler.pc = "done" /\ handler.ended = "returned"

C27_Witness ==
    /\ handler.pc = "done"
    /\ handler.ended = "returned"
    /\ outcome["s1"].kind = "error"
    /\ call["s1"].op = "save_food_log"
    /\ posts["s1"] = max_retries

\* Every reaction attempt failed after a successful save.
AllReactionsFailed ==
    /\ handler.pc = "done"
    /\ outcome["s1"].kind = "result"
    /\ Len(handler.reactions) = 4
    /\ \A i \in DOMAIN handler.reactions : ~handler.reactions[i][2]

----------------------------------------------------------------------------
(* bot_common.reply_builder: the handler it returns *)

\* dispatch.accepts[k] is condition(received_message_text) of the k-th entry
\* of the dict, in insertion order; dispatch.ran lists the actions awaited.

\* Variant: the loop goes on after an action.
loop_after_action_no_break(i) == [pc |-> "loop", i |-> i + 1]

\* `break` after `await action(update, context)`: the loop and its else
\* clause are left.
loop_after_action(i) == [pc |-> "done", i |-> i]

\* `if allowed_user(update):` with nothing after it.
ReplyStart ==
    /\ UNCHANGED <<save_vars, sleep_vars, last_known_entries, view, handler, transcript, notion, tracker>>
    /\ dispatch.pc = "start"
    /\ dispatch' = [dispatch EXCEPT !.pc = IF dispatch.allowed THEN "loop" ELSE "done",
                                    !.i = 1]

\* One turn of `for condition, action in actions.items()`, or its else
\* clause once the items are used up.
ReplyLoop ==
    /\ UNCHANGED <<save_vars, sleep_vars, last_known_entries, view, handler, transcript, notion, tracker>>
    /\ dispatch.pc = "loop"
    /\ LET i == dispatch.i IN
       IF i > Len(dispatch.accepts)
       THEN dispatch' = [dispatch EXCEPT !.pc = "done", !.fallback = @ + 1]
       ELSE IF dispatch.accepts[i]
       THEN dispatch' = [dispatch EXCEPT !.ran = Append(@, i),
                                        !.pc = loop_after_action(i).pc,
                                        !.i = loop_after_action(i).i]
       ELSE dispatch' = [dispatch EXCEPT !.i = i + 1]

\* Any sender, any dict of up to MaxConditions conditions, any text.
InitDispatch ==
    /\ InitSaveOver(OneSaver)
    /\ max_retries = 3
    /\ retry_delay = 1
    /\ SleepIdle
    /\ last_known_entries = <<>>
    /\ view = ViewIdle
    /\ handler = HandlerIdle
    /\ transcript = TranscriptIdle
    /\ notion = NotionIdle
    /\ tracker = TrackerIdle
    /\ dispatch \in [allowed : BOOLEAN, accepts : SeqsUpTo(BOOLEAN, MaxConditions),
                      i : {0}, ran : {<<>>}, fallback : {0}, pc : {"start"}]

NextDispatch ==
    \/ ReplyStart
    \/ ReplyLoop

SpecDispatch == InitDispatch /\ [][NextDispatch]_vars

Accepting == {k \in DOMAIN dispatch.accepts : dispatch.accepts[k]}

\* C28: at most one action is ever run for a message; when the handler is
\* over for an allowed sender, it ran the action of the first accepting
\* condition in insertion order and nothing else, or, no condition
\* accepting, sent the fallback reply once and ran no action.
C28_FirstMatchOnly ==
    /\ Len(dispatch.ran) <= 1
    /\ dispatch.fallback <= 1
    /\ dispatch.pc = "done" /\ dispatch.allowed =>
          IF Accepting # {}
          THEN /\ dispatch.ran = <<CHOOSE k \in Accepting : \A j \in Accepting : k <= j>>
               /\ dispatch.fallback = 0
          ELSE /\ dispatch.ran = <<>>
               /\ dispatch.fallback = 1

\* The second and the third condition accept: only the second's action ran.
C28_Witness ==
    /\ dispatch.pc = "done"
    /\ dispatch.allowed
    /\ dispatch.accepts = <<FALSE, TRUE, TRUE>>
    /\ dispatch.ran = <<2>>
    /\ dispatch.fallback = 0

----------------------------------------------------------------------------
(* whisper_adapter.transcribe_audio_file: the text cut into messages *)

\* A text is a sequence of pieces: "w" is a run of RunLength characters that
\* are neither spaces nor sentence ends, "." is one of . ! ?, " " is a space.
Pieces == {"w", ".", " "}

RECURSIVE len(_)
\* len() of a string, in characters.
len(str) ==
    IF str = <<>> THEN 0
    ELSE (IF Head(str) = "w" THEN RunLength ELSE 1) + len(Tail(str))

RECURSIVE join(_)
\* "".join(strings)
join(strs) == IF strs = <<>> THEN <<>> ELSE Head(strs) \o join(Tail(strs))

\* The first position from i on that holds no space (Len + 1 if none).
skip_spaces(text, i) ==
    IF \E j \in i..Len(text) : text[j] # " "
    THEN CHOOSE j \in i..Len(text) :
            text[j] # " " /\ \A k \in i..(j - 1) : text[k] = " "
    ELSE Len(text) + 1

RECURSIVE split_from(_, _, _, _)
\* re.split("(?<=[.!?]) +", text) from position i on, with the sentences
\* closed so far and the one being read: a run of spaces right behind a
\* sentence end closes the sentence and is dropped.
split_from(text, i, sentences, current) ==
    IF i > Len(text) THEN Append(sentences, current)
    ELSE IF text[i] = " " /\ i > 1 /\ text[i - 1] = "."
    THEN split_from(text, skip_spaces(text, i), Append(sentences, current), <<>>)
    ELSE split_from(text, i + 1, sentences, Append(current, text[i]))

split_sentences(text) == split_from(text, 1, <<>>, <<>>)

message_limit == 1000

RECURSIVE pack(_, _, _, _)
\* The for loop over sentences[:-1] from its k-th turn on: the messages and
\* current_message it ends with.
pack(sentences, k, messages, current_message) ==
    IF k > Len(sentences) - 1
    THEN [messages |-> messages, current_message |-> current_message]
    ELSE IF len(current_message) + len(sentences[k]) <= message_limit
    THEN pack(sentences, k + 1, messages, current_message \o sentences[k])
    ELSE pack(sentences, k + 1, Append(messages, current_message), sentences[k])

\* Variant: the last sentence is left out of the last message.
last_message_without_last(current_message, last) == current_message

\* `current_message + sentences[-1]`
last_message(current_message, last) == current_message \o last

\* Lines 43-54: the loop, the overlong current_message put aside, and the
\* last message.
messages_of(sentences) ==
    LET loop == pack(sentences, 1, <<>>, <<>>)
        over == len(loop.current_message) > message_limit
        messages == IF over THEN Append(loop.messages, loop.current_message)
                    ELSE loop.messages
        current_message == IF over THEN <<>> ELSE loop.current_message
    IN  Append(messages, last_message(current_message, sentences[Len(sentences)]))

\* The part of transcribe_audio_file after the Whisper answer.
Transcribe ==
    /\ UNCHANGED <<save_vars, sleep_vars, last_known_entries, view, handler, dispatch,
                   notion, tracker>>
    /\ ~transcript.done
    /\ transcript' = [transcript EXCEPT
                         !.messages = messages_of(split_sentences(transcript.text)),
                         !.done = TRUE]

\* Whisper answered with any short text.
InitTranscript ==
    /\ InitSaveOver(OneSaver)
    /\ max_retries = 3
    /\ retry_delay = 1
    /\ SleepIdle
    /\ last_known_entries = <<>>
    /\ view = ViewIdle
    /\ handler = HandlerIdle
    /\ dispatch = DispatchIdle
    /\ transcript \in [text : SeqsUpTo(Pieces, MaxText), messages : {<<>>},
                        done : {FALSE}]
    /\ notion = NotionIdle
    /\ tracker = TrackerIdle

NextTranscript == Transcribe

SpecTranscript == InitTranscript /\ [][NextTranscript]_vars

\* Position i of the text is a space of a run that follows a sentence end.
Separates(text, i) ==
    /\ text[i] = " "
    /\ \E j \in 1..(i - 1) : text[j] = "." /\ \A k \in (j + 1)..i : text[k] = " "

\* The text without its sentence-separating spaces.
WithoutSeparators(text) ==
    LET kept == {i \in DOMAIN text : ~Separates(text, i)}
    IN  [n \in 1..Cardinality(kept) |->
            text[CHOOSE i \in kept : Cardinality({j \in kept : j <= i}) = n]]

\* C29: the messages returned for a text, joined, are the text without its
\* sentence-separating spaces: the sentences in their order, none lost and
\* none twice.
C29_MessagesJoinToText ==
    transcript.done =>
        /\ join(transcript.messages) = WithoutSeparators(transcript.text)
        /\ join(transcript.messages) = join(split_sentences(transcript.text))

\* Three sentences in two messages: the second does not fit with the first,
\* and the last one is added to it.
C29_Witness ==
    /\ transcript.done
    /\ transcript.text = <<"w", "w", ".", " ", "w", ".", " ", "w">>
    /\ transcript.messages = <<<<"w", "w", ".">>, <<"w", ".", "w">>>>

\* C30: every returned message has at most 1000 characters.
C30_MessagesWithinLimit ==
    transcript.done =>
        \A m \in DOMAIN transcript.messages : len(transcript.messages[m]) <= message_limit

\* C40: when the transcription text is not empty, no returned message is
\* empty.
C40_NoEmptyMessage ==
    transcript.done /\ transcript.text # <<>> =>
        \A m \in DOMAIN transcript.messages : transcript.messages[m] # <<>>

----------------------------------------------------------------------------
(* gpt_whisper_bot._chunk_text_for_notion: a text cut into Notion blocks *)

newline == "\n"

\* A text is a sequence of characters: a letter, a full stop, a space or a
\* newline.
Chars == {"a", ".", " ", newline}

RECURSIVE split_at(_, _, _, _, _)
\* text.split(sep) from position i on, with the parts closed so far and the
\* one being read.
split_at(text, sep, i, parts, current) ==
    IF i > Len(text) THEN Append(parts, current)
    ELSE IF i + Len(sep) - 1 <= Len(text) /\ SubSeq(text, i, i + Len(sep) - 1) = sep
    THEN split_at(text, sep, i + Len(sep), Append(parts, current), <<>>)
    ELSE split_at(text, sep, i + 1, parts, Append(current, text[i]))

split(text, sep) == split_at(text, sep, 1, <<>>, <<>>)

\* Variant: the slice runs to the end of the word.
slice_to_end(word, j, max_chunk_size) == SubSeq(word, j + 1, Len(word))

\* `word[j:j + max_chunk_size]`, j counted from 0.
slice(word, j, max_chunk_size) ==
    SubSeq(word, j + 1, IF j + max_chunk_size < Len(word) THEN j + max_chunk_size
                        ELSE Len(word))

RECURSIVE slices(_, _, _, _)
\* `for j in range(0, len(word), max_chunk_size): chunks.append(word[j:j + max_chunk_size])`
slices(word, j, max_chunk_size, chunks) ==
    IF j >= Len(word) THEN chunks
    ELSE slices(word, j + max_chunk_size, max_chunk_size,
                Append(chunks, slice(word, j, max_chunk_size)))

\* `if current_chunk: chunks.append(current_chunk); current_chunk = ""`
flushed(st) ==
    IF st.current_chunk # <<>>
    THEN [chunks |-> Append(st.chunks, st.current_chunk), current_chunk |-> <<>>]
    ELSE st

\* Lines 151-155 and 166-170: a word or a sentence that fits in a chunk is
\* put behind current_chunk with a space, or begins the next chunk.
add_piece(st, piece, max_chunk_size) ==
    IF st.current_chunk # <<>>
       /\ Len(st.current_chunk) + Len(piece) + 1 > max_chunk_size
    THEN [chunks |-> Append(st.chunks, st.current_chunk), current_chunk |-> piece]
    ELSE [st EXCEPT !.current_chunk =
              IF st.current_chunk # <<>> THEN st.current_chunk \o <<" ">> \o piece
              ELSE piece]

\* One turn of the loop over words (lines 139-155).
add_word(st, word, max_chunk_size) ==
    IF Len(word) > max_chunk_size
    THEN [chunks |-> slices(word, 0, max_chunk_size, flushed(st).chunks),
          current_chunk |-> <<>>]
    ELSE add_piece(st, word, max_chunk_size)

RECURSIVE add_words(_, _, _, _)
add_words(st, words, k, max_chunk_size) ==
    IF k > Len(words) THEN st
    ELSE add_words(add_word(st, words[k], max_chunk_size), words, k + 1, max_chunk_size)

\* One turn of the loop over sentences (lines 131-170), the full stop
\* already put back.
add_sentence(st, sentence, max_chunk_size) ==
    IF Len(sentence) > max_chunk_size
    THEN add_words(st, split(sentence, <<" ">>), 1, max_chunk_size)
    ELSE IF Len(sentence) > max_chunk_size
    THEN [chunks |-> slices(sentence, 0, max_chunk_size, flushed(st).chunks),
          current_chunk |-> <<>>]
    ELSE add_piece(st, sentence, max_chunk_size)

RECURSIVE add_sentences(_, _, _, _)
add_sentences(st, sentences, i, max_chunk_size) ==
    IF i > Len(sentences) THEN st
    ELSE add_sentences(
             add_sentence(st, IF i < Len(sentences) THEN Append(sentences[i], ".")
                              ELSE sentences[i], max_chunk_size),
             sentences, i + 1, max_chunk_size)

\* One turn of the loop over paragraphs (lines 117-172).
add_paragraph(st, paragraph, max_chunk_size) ==
    LET saved == IF st.current_chunk # <<>>
                    /\ Len(st.current_chunk) + Len(paragraph) + 1 > max_chunk_size
                 THEN flushed(st) ELSE st
    IN  IF Len(paragraph) > max_chunk_size
        THEN add_sentences(flushed(saved), split(paragraph, <<".", " ">>), 1,
                           max_chunk_size)
        ELSE [saved EXCEPT !.current_chunk =
                  IF saved.current_chunk # <<>>
                  THEN saved.current_chunk \o <<newline>> \o paragraph
                  ELSE paragraph]

RECURSIVE add_paragraphs(_, _, _, _)
add_paragraphs(st, paragraphs, k, max_chunk_size) ==
    IF k > Len(paragraphs) THEN st
    ELSE add_paragraphs(add_paragraph(st, paragraphs[k], max_chunk_size), paragraphs,
                        k + 1, max_chunk_size)

_chunk_text_for_notion(text, max_chunk_size) ==
    IF Len(text) <= max_chunk_size THEN <<text>>
    ELSE flushed(add_paragraphs([chunks |-> <<>>, current_chunk |-> <<>>],
                                split(text, <<newline>>), 1, max_chunk_size)).chunks

\* One call of the function.
ChunkText ==
    /\ UNCHANGED <<save_vars, sleep_vars, last_known_entries, view, handler, dispatch,
                   transcript, tracker>>
    /\ ~notion.done
    /\ notion' = [notion EXCEPT
                     !.chunks = _chunk_text_for_notion(notion.text, notion.max_chunk_size),
                     !.done = TRUE]

\* Any short text, any positive max_chunk_size.
InitNotion ==
    /\ InitSaveOver(OneSaver)
    /\ max_retries = 3
    /\ retry_delay = 1
    /\ SleepIdle
    /\ last_known_entries = <<>>
    /\ view = ViewIdle
    /\ handler = HandlerIdle
    /\ dispatch = DispatchIdle
    /\ transcript = TranscriptIdle
    /\ tracker = TrackerIdle
    /\ notion \in [text : SeqsUpTo(Chars, MaxChunkText),
                    max_chunk_size : 1..MaxChunkSize, chunks : {<<>>}, done : {FALSE}]

NextNotion == ChunkText

SpecNotion == InitNotion /\ [][NextNotion]_vars

\* C39: every chunk returned has at most max_chunk_size characters.
C39_ChunksWithinSize ==
    notion.done =>
        \A c \in DOMAIN notion.chunks : Len(notion.chunks[c]) <= notion.max_chunk_size

\* A paragraph longer than max_chunk_size whose one sentence is longer too
\* and holds a longer word: the word is cut into slices.
C39_Witness ==
    /\ notion.done
    /\ notion.max_chunk_size = 2
    /\ notion.text = <<"a", " ", "a", "a", "a">>
    /\ notion.chunks = <<<<"a">>, <<"a", "a">>, <<"a">>>>

----------------------------------------------------------------------------
(* bot_common.NetworkErrorTracker and the error handler built on it *)

\* create_error_handler: NetworkErrorTracker(error_threshold=5,
\* time_window_minutes=5). Times are in minutes.
error_threshold == 5
time_window == 5

RECURSIVE _cleanup_old_errors(_, _)
\* `while self.recent_errors and (now - self.recent_errors[0]) > self.time_window:
\*      self.recent_errors.popleft()`
_cleanup_old_errors(recent_errors, now) ==
    IF recent_errors # <<>> /\ now - Head(recent_errors) > time_window
    THEN _cleanup_old_errors(Tail(recent_errors), now)
    ELSE recent_errors

\* record_error: the deque it leaves, `now` read for the timestamp and
\* read again by the cleanup.
record_error(recent_errors, now, cleanup_now) ==
    _cleanup_old_errors(Append(recent_errors, now), cleanup_now)

\* is_persistent, on the deque its cleanup left.
is_persistent(recent_errors) == Len(recent_errors) >= error_threshold

\* A minute passes between two calls of the error handler.
ClockTick ==
    /\ UNCHANGED <<save_vars, sleep_vars, last_known_entries, view, handler, dispatch,
                   transcript, notion>>
    /\ tracker.now < MaxClock
    /\ tracker' = [tracker EXCEPT !.now = tracker.now + 1]

\* error_handler for a NetworkError or TimedOut (lines 269-285): the clock
\* is read three times, by record_error, by its cleanup after d1 and by the
\* cleanup of is_persistent after d2 more.
NetworkErrorHandled(d1, d2) ==
    /\ UNCHANGED <<save_vars, sleep_vars, last_known_entries, view, handler, dispatch,
                   transcript, notion>>
    /\ Len(tracker.recorded) < MaxErrors
    /\ tracker.now + d1 + d2 <= MaxClock
    /\ LET recorded_at == tracker.now
           checked_at == tracker.now + d1 + d2
           after_record == record_error(tracker.recent_errors, recorded_at,
                                        recorded_at + d1)
           after_check == _cleanup_old_errors(after_record, checked_at)
       IN  tracker' = [recent_errors |-> after_check,
                       now |-> checked_at,
                       logged |-> [level |-> IF is_persistent(after_check) THEN "ERROR"
                                             ELSE "INFO",
                                   network |-> TRUE,
                                   at |-> checked_at,
                                   error_count |-> Len(after_record)],
                       recorded |-> Append(tracker.recorded, recorded_at)]

\* error_handler for any other exception (lines 286-291).
OtherErrorHandled ==
    /\ UNCHANGED <<save_vars, sleep_vars, last_known_entries, view, handler, dispatch,
                   transcript, notion>>
    /\ tracker' = [tracker EXCEPT
                      !.logged = [level |-> "ERROR", network |-> FALSE,
                                  at |-> tracker.now, error_count |-> 0]]

\* A bot has just been started with the error handler registered.
InitTracker ==
    /\ InitSaveOver(OneSaver)
    /\ max_retries = 3
    /\ retry_delay = 1
    /\ SleepIdle
    /\ BotIdle

NextTracker ==
    \/ ClockTick
    \/ \E d1 \in 0..1, d2 \in 0..1 : NetworkErrorHandled(d1, d2)
    \/ OtherErrorHandled

SpecTracker == InitTracker /\ [][NextTracker]_vars

\* The network errors recorded within the window before time t, t included.
WithinWindow(t) ==
    {i \in DOMAIN tracker.recorded : t - tracker.recorded[i] <= time_window}

\* C38: a network error is logged at ERROR level exactly when at least 5
\* network errors, this one included, were recorded within the 5 minutes
\* before, and at WARNING level otherwise.
C38_EscalatesAtThreshold ==
    tracker.logged.network =>
        IF Cardinality(WithinWindow(tracker.logged.at)) >= error_threshold
        THEN tracker.logged.level = "ERROR"
        ELSE tracker.logged.level = "WARNING"

====
